---------------------------- MODULE Spec2Model ----------------------------
(***************************************************************************)
(* Model of the Judgment card-game server (src/index.js): the room map,    *)
(* the socket event handlers (createRoom, joinRoom, startGame,             *)
(* makePrediction, playCard, disconnect), the functions they call          *)
(* (startRound, startPlayPhase, determineTrickWinner, endRound) and the    *)
(* setTimeout callbacks that drive the round state machine.                *)
(*                                                                         *)
(* Node runs every handler and every timer callback to completion on one   *)
(* thread, so each handler is one atomic action.                           *)
(***************************************************************************)
EXTENDS Integers, Sequences, FiniteSets, TLC

VARIABLES
    rooms,      \* let rooms = {} : room code -> room object
    timers,     \* pending setTimeout callbacks that mutate rooms, in scheduling order
    connected,  \* socket ids whose connection is open
    crashed,    \* an uncaught TypeError has ended the process
    log,        \* per room code: the round-level events broadcast so far
    probe,      \* input and result of a direct call of determineTrickWinner
    joined      \* socket.io rooms: per room code, the sockets that called socket.join

vars == <<rooms, timers, connected, crashed, log, probe, joined>>

(***************************************************************************)
(* Bounds of the exploration.                                              *)
(***************************************************************************)
\* rounds dealt per room code before the exploration of Spec stops
MaxDeals == 1
\* rounds dealt per room code before the exploration of SpecGame stops
MaxGameDeals == 4
\* longest trick handed directly to determineTrickWinner
MaxTrick == 3
\* rounds dealt per room code before the exploration of SpecRestart stops
MaxRestartDeals == 2
\* rounds dealt per room code before the exploration of SpecDuel stops
MaxDuelDeals == 4

\* socket ids
Conns == {"a", "b", "c"}
\* room codes
Codes == {"r1"}
\* connections that send createRoom
Creators == {"a"}
\* card types that occur among the cards dealt from the shuffled deck (Spec)
DeckCards ==
    { [rank |-> "2", suit |-> "Spades"],   [rank |-> "A", suit |-> "Spades"],
      [rank |-> "10", suit |-> "Diamonds"], [rank |-> "J", suit |-> "Diamonds"] }
\* card types that occur among the cards dealt from the shuffled deck (SpecGame)
GameCards == { [rank |-> "A", suit |-> "Spades"] }
\* createRoom payloads of SpecGame
GameConfigs ==
    { [maxPlayers |-> 3, number_of_decks |-> 6, max_round_cards |-> 2, min_round_cards |-> 1] }
\* createRoom payloads of Spec: maxPlayers, number_of_decks, max_round_cards, min_round_cards
Configs ==
    { [maxPlayers |-> 3, number_of_decks |-> 1, max_round_cards |-> 1, min_round_cards |-> 1],
      [maxPlayers |-> 2, number_of_decks |-> 1, max_round_cards |-> 2, min_round_cards |-> 1],
      [maxPlayers |-> 2, number_of_decks |-> 1, max_round_cards |-> 2, min_round_cards |-> 2],
      [maxPlayers |-> 2, number_of_decks |-> 1, max_round_cards |-> 1, min_round_cards |-> 2],
      [maxPlayers |-> 1, number_of_decks |-> 1, max_round_cards |-> 1, min_round_cards |-> 1],
      [maxPlayers |-> 2, number_of_decks |-> 0, max_round_cards |-> 1, min_round_cards |-> 1],
      [maxPlayers |-> 2, number_of_decks |-> 1, max_round_cards |-> 1, min_round_cards |-> 0],
      [maxPlayers |-> 3, number_of_decks |-> 1, max_round_cards |-> 18, min_round_cards |-> 1] }
\* card types that occur among the cards dealt from the shuffled deck (SpecLobby)
LobbyCards == { [rank |-> "2", suit |-> "Spades"], [rank |-> "10", suit |-> "Diamonds"] }
\* createRoom payloads of SpecLobby: two that are accepted, and one refused
\* by each test of validateGameConfig
LobbyConfigs ==
    { [maxPlayers |-> 2, number_of_decks |-> 2, max_round_cards |-> 2, min_round_cards |-> 2],
      [maxPlayers |-> 3, number_of_decks |-> 2, max_round_cards |-> 1, min_round_cards |-> 1],
      [maxPlayers |-> 2, number_of_decks |-> 0, max_round_cards |-> 1, min_round_cards |-> 1],
      [maxPlayers |-> 2, number_of_decks |-> 1, max_round_cards |-> 1, min_round_cards |-> 0],
      [maxPlayers |-> 2, number_of_decks |-> 1, max_round_cards |-> 0, min_round_cards |-> 1],
      [maxPlayers |-> 2, number_of_decks |-> 1, max_round_cards |-> 1, min_round_cards |-> 2],
      [maxPlayers |-> 1, number_of_decks |-> 1, max_round_cards |-> 1, min_round_cards |-> 1],
      [maxPlayers |-> 3, number_of_decks |-> 1, max_round_cards |-> 18, min_round_cards |-> 1] }
\* createRoom payloads of SpecDuel
DuelConfigs ==
    { [maxPlayers |-> 2, number_of_decks |-> 6, max_round_cards |-> 2, min_round_cards |-> 1] }
\* cards handed directly to determineTrickWinner
TrickRanks == {"2", "9", "10", "J", "A"}

(***************************************************************************)
(* Program constants.                                                      *)
(***************************************************************************)
WAITING == "waiting"
PREDICTING == "predicting"
PLAYING == "playing"
SCORING == "scoring"

trump_rotation == <<"Spades", "Diamonds", "Clubs", "Hearts">>
Suits == {"Spades", "Diamonds", "Clubs", "Hearts"}

DECK_SIZE == 52
END_ROUND_DELAY == 4000
NEXT_ROUND_DELAY == 5000
NEW_GAME_DELAY == 3000
RESTART_DELAY == 500

\* the value of `undefined + n` and of every sum that involves it
NaN == 0 - 999999

(***************************************************************************)
(* JavaScript objects and arrays.                                          *)
(***************************************************************************)
EmptyObj == [k \in {} |-> 0]
Get(obj, k, dflt) == IF k \in DOMAIN obj THEN obj[k] ELSE dflt
Put(obj, k, v) == [x \in (DOMAIN obj) \cup {k} |-> IF x = k THEN v ELSE obj[x]]
Delete(obj, k) == [x \in (DOMAIN obj) \ {k} |-> obj[x]]

RECURSIVE SumOver(_, _)
SumOver(obj, keys) ==
    IF keys = {} THEN 0
    ELSE LET k == CHOOSE x \in keys : TRUE
         IN  obj[k] + SumOver(obj, keys \ {k})
\* Object.values(obj).reduce((sum, p) => sum + p, 0)
SumValues(obj) == SumOver(obj, DOMAIN obj)

Range(s) == { s[i] : i \in 1..Len(s) }
\* arr.filter(id => id !== x)
Without(s, x) == SelectSeq(s, LAMBDA e : e # x)
\* arr.findIndex(id => id === x), 0-based, -1 when absent
FindIndex(s, x) ==
    IF x \in Range(s) THEN (CHOOSE i \in 1..Len(s) : s[i] = x /\ \A j \in 1..(i-1) : s[j] # x) - 1
    ELSE 0 - 1
\* arr.slice(k).concat(arr.slice(0, k))
Rotate(s, k) == SubSeq(s, k + 1, Len(s)) \o SubSeq(s, 1, k)
\* hand.filter((_, index) => index !== cardIndex), cardIndex 0-based
RemoveAt(s, cardIndex) == SubSeq(s, 1, cardIndex) \o SubSeq(s, cardIndex + 2, Len(s))

\* a + b on JavaScript numbers, where NaN is absorbing
NumAdd(a, b) == IF a = NaN \/ b = NaN THEN NaN ELSE a + b
Abs(n) == IF n < 0 THEN 0 - n ELSE n

(***************************************************************************)
(* validateGameConfig: the error message, or "null".                       *)
(***************************************************************************)
\* validateGameConfig without the test of the deck capacity
validateGameConfigNoCapacity(number_of_decks, min_round_cards, max_round_cards, maxPlayers) ==
    IF number_of_decks < 1 THEN "Number of decks must be at least 1"
    ELSE IF min_round_cards < 1 THEN "Minimum round cards must be at least 1"
    ELSE IF max_round_cards < 1 THEN "Maximum round cards must be at least 1"
    ELSE IF min_round_cards > max_round_cards THEN "Minimum cards cannot exceed maximum cards"
    ELSE IF maxPlayers < 2 THEN "Need at least 2 players"
    ELSE "null"

validateGameConfig(number_of_decks, min_round_cards, max_round_cards, maxPlayers) ==
    IF number_of_decks < 1 THEN "Number of decks must be at least 1"
    ELSE IF min_round_cards < 1 THEN "Minimum round cards must be at least 1"
    ELSE IF max_round_cards < 1 THEN "Maximum round cards must be at least 1"
    ELSE IF min_round_cards > max_round_cards THEN "Minimum cards cannot exceed maximum cards"
    ELSE IF maxPlayers < 2 THEN "Need at least 2 players"
    ELSE IF max_round_cards * maxPlayers > DECK_SIZE * number_of_decks
         THEN "Not enough cards for the specified configuration"
    ELSE "null"

(***************************************************************************)
(* getCardValue                                                            *)
(***************************************************************************)
getCardValue(rank) ==
    CASE rank = "2" -> 2 [] rank = "3" -> 3 [] rank = "4" -> 4 [] rank = "5" -> 5
      [] rank = "6" -> 6 [] rank = "7" -> 7 [] rank = "8" -> 8 [] rank = "9" -> 9
      [] rank = "10" -> 10 [] rank = "J" -> 11 [] rank = "Q" -> 12
      [] rank = "K" -> 13 [] rank = "A" -> 14 [] OTHER -> 0

(***************************************************************************)
(* determineTrickWinner.  The loop state is the position of winningCard,   *)
(* winningValue and isTrump; TrickStep is one iteration of the loop body.  *)
(***************************************************************************)
TrickStart(trick, trumpSuit) ==
    [idx |-> 1,
     value |-> getCardValue(trick[1].card.rank),
     isTrump |-> (trick[1].card.suit = trumpSuit)]

\* TrickStep without the lead-suit test: any higher non-trump card takes the trick
TrickStepAnySuit(w, i, trick, trumpSuit) ==
    LET currentValue == getCardValue(trick[i].card.rank)
        currentIsTrump == (trick[i].card.suit = trumpSuit)
    IN  IF currentIsTrump /\ ~w.isTrump
          THEN [idx |-> i, value |-> currentValue, isTrump |-> TRUE]
        ELSE IF (currentIsTrump /\ w.isTrump) \/ (~currentIsTrump /\ ~w.isTrump)
          THEN IF currentValue >= w.value THEN [w EXCEPT !.idx = i, !.value = currentValue]
               ELSE w
        ELSE w

\* TrickStep without the two equal-value branches: the earlier of two tied cards stays
TrickStepFirstWins(w, i, trick, trumpSuit) ==
    LET leadSuit == trick[1].card.suit
        currentValue == getCardValue(trick[i].card.rank)
        currentIsTrump == (trick[i].card.suit = trumpSuit)
    IN  IF currentIsTrump /\ ~w.isTrump
          THEN [idx |-> i, value |-> currentValue, isTrump |-> TRUE]
        ELSE IF currentIsTrump /\ w.isTrump
          THEN IF currentValue > w.value THEN [w EXCEPT !.idx = i, !.value = currentValue]
               ELSE w
        ELSE IF ~currentIsTrump /\ ~w.isTrump /\ trick[i].card.suit = leadSuit
          THEN IF currentValue > w.value THEN [w EXCEPT !.idx = i, !.value = currentValue]
               ELSE w
        ELSE w

TrickStep(w, i, trick, trumpSuit) ==
    LET leadSuit == trick[1].card.suit
        currentValue == getCardValue(trick[i].card.rank)
        currentIsTrump == (trick[i].card.suit = trumpSuit)
    IN  IF currentIsTrump /\ ~w.isTrump
          THEN [idx |-> i, value |-> currentValue, isTrump |-> TRUE]
        ELSE IF currentIsTrump /\ w.isTrump
          THEN IF currentValue > w.value THEN [w EXCEPT !.idx = i, !.value = currentValue]
               ELSE IF currentValue = w.value THEN [w EXCEPT !.idx = i]
               ELSE w
        ELSE IF ~currentIsTrump /\ ~w.isTrump /\ trick[i].card.suit = leadSuit
          THEN IF currentValue > w.value THEN [w EXCEPT !.idx = i, !.value = currentValue]
               ELSE IF currentValue = w.value THEN [w EXCEPT !.idx = i]
               ELSE w
        ELSE w

RECURSIVE TrickLoop(_, _, _, _)
TrickLoop(w, i, trick, trumpSuit) ==
    IF i > Len(trick) THEN w
    ELSE TrickLoop(TrickStep(w, i, trick, trumpSuit), i + 1, trick, trumpSuit)

\* position (1-based) in the trick of the play that determineTrickWinner returns
WinnerIndex(trick, trumpSuit) == TrickLoop(TrickStart(trick, trumpSuit), 2, trick, trumpSuit).idx

determineTrickWinner(trick, trumpSuit) == trick[WinnerIndex(trick, trumpSuit)]


(***************************************************************************)
(* createDeck(numberOfDecks) returns a shuffled array of 52*numberOfDecks  *)
(* cards.  startRound only ever takes its first `need` cards, so a deck is *)
(* represented by that prefix: any arrangement of cards of the types       *)
(* `cards` in which no type occurs more often than there are decks.        *)
(***************************************************************************)
createDeck(cards, numberOfDecks, need) ==
    { d \in [1..need -> cards] :
        \A card \in cards : Cardinality({ i \in 1..need : d[i] = card }) <= numberOfDecks }

(***************************************************************************)
(* History of a room code: the round-level events broadcast to the room    *)
(* (roundStart, roundEnd, gameOver) and the startGame requests accepted    *)
(* (gameStart).                                                            *)
(***************************************************************************)
Event(ev, room) == [ev |-> ev, round |-> room.current_round, cards |-> room.cards_this_round]
Deals(code) == Cardinality({ i \in 1..Len(log[code]) : log[code][i].ev = "roundStart" })

(***************************************************************************)
(* The room object built by the createRoom handler.                        *)
(***************************************************************************)
NewRoom(id, cfg) ==
    [host |-> id,
     players |-> <<id>>,
     maxPlayers |-> cfg.maxPlayers,
     number_of_decks |-> cfg.number_of_decks,
     max_round_cards |-> cfg.max_round_cards,
     min_round_cards |-> cfg.min_round_cards,
     current_round |-> 1,
     cards_this_round |-> cfg.min_round_cards,
     turn_index |-> 0,
     state |-> WAITING,
     ascending |-> TRUE,
     predictions |-> EmptyObj,
     tricks_won |-> EmptyObj,
     scores |-> EmptyObj,
     current_trick |-> <<>>,
     playerHands |-> EmptyObj,
     current_play_order |-> <<>>,
     next_player_index |-> 0,
     predictionOrder |-> <<>>]

(***************************************************************************)
(* startRound, as a function of the room and of the deck createDeck built. *)
(***************************************************************************)
\* startRound dealing with deck.slice instead of deck.splice: every player
\* is handed the same first cards of the deck
startRoundSameSlice(room, deck) ==
    LET players == room.players
        n == room.cards_this_round
        leaderIndex == room.turn_index % Len(players)
    IN  [room EXCEPT
            !.predictions = EmptyObj,
            !.tricks_won = [p \in Range(players) |-> 0],
            !.current_trick = <<>>,
            !.current_play_order = <<>>,
            !.next_player_index = 0,
            !.state = PREDICTING,
            !.playerHands = [p \in Range(players) |-> SubSeq(deck, 1, n)],
            !.predictionOrder = Rotate(players, leaderIndex)]

startRound(room, deck) ==
    LET players == room.players
        n == room.cards_this_round
        leaderIndex == room.turn_index % Len(players)
    IN  [room EXCEPT
            !.predictions = EmptyObj,
            !.tricks_won = [p \in Range(players) |-> 0],
            !.current_trick = <<>>,
            !.current_play_order = <<>>,
            !.next_player_index = 0,
            !.state = PREDICTING,
            !.playerHands = [p \in Range(players) |->
                               LET k == FindIndex(players, p)
                               IN  SubSeq(deck, k * n + 1, (k + 1) * n)],
            !.predictionOrder = Rotate(players, leaderIndex)]

\* number of cards startRound takes from the deck
Need(room) == Len(room.players) * room.cards_this_round

(***************************************************************************)
(* startPlayPhase                                                          *)
(***************************************************************************)
startPlayPhase(room) ==
    LET leaderIndex == room.turn_index % Len(room.players)
    IN  [room EXCEPT
            !.current_play_order = Rotate(room.players, leaderIndex),
            !.next_player_index = 0]

(***************************************************************************)
(* endRound: the score of one player, the scores of all, the room after    *)
(* the call, and whether the call took the game-over branch.               *)
(***************************************************************************)
ScoreDelta(predicted, actual) ==
    IF predicted = actual THEN 10 + (actual * 11)
    ELSE 0 - Abs(predicted - actual)

ScoredPlayer(room, id) ==
    LET predicted == Get(room.predictions, id, 0)
        actual == Get(room.tricks_won, id, 0)
    IN  NumAdd(Get(room.scores, id, NaN), ScoreDelta(predicted, actual))

Scored(room) ==
    [id \in (DOMAIN room.scores) \cup Range(room.players) |->
        IF id \in Range(room.players) THEN ScoredPlayer(room, id) ELSE room.scores[id]]

IsGameOver(room) == ~room.ascending /\ ~(room.cards_this_round > room.min_round_cards)

NextCards(room) ==
    IF room.ascending
      THEN IF room.cards_this_round < room.max_round_cards
             THEN [room EXCEPT !.cards_this_round = @ + 1]
             ELSE [room EXCEPT !.ascending = FALSE, !.cards_this_round = @ - 1]
      ELSE IF room.cards_this_round > room.min_round_cards
             THEN [room EXCEPT !.cards_this_round = @ - 1]
             ELSE [room EXCEPT !.state = WAITING,
                               !.current_round = 1,
                               !.cards_this_round = room.min_round_cards,
                               !.turn_index = 0,
                               !.ascending = TRUE]

\* endRound without the return that ends the game-over branch
endRoundNoReturn(room) ==
    LET scored == [room EXCEPT !.state = SCORING,
                               !.scores = Scored(room),
                               !.turn_index = (room.turn_index + 1) % Len(room.players)]
    IN  [NextCards(scored) EXCEPT !.current_round = @ + 1]

endRound(room) ==
    LET scored == [room EXCEPT !.state = SCORING,
                               !.scores = Scored(room),
                               !.turn_index = (room.turn_index + 1) % Len(room.players)]
        next == NextCards(scored)
    IN  IF IsGameOver(scored) THEN next
        ELSE [next EXCEPT !.current_round = @ + 1]

Timer(code, fn, delay) == [code |-> code, fn |-> fn, delay |-> delay]


(***************************************************************************)
(* Inputs of the requests.                                                 *)
(***************************************************************************)
PredictionInputs == (0 - 1)..3
CardIndexInputs == (0 - 1)..2

IdleProbe == [trick |-> <<>>, trump |-> "Spades", winner |-> 0]

Init ==
    /\ rooms = EmptyObj
    /\ timers = <<>>
    /\ connected = Conns
    /\ crashed = FALSE
    /\ log = [code \in Codes |-> <<>>]
    /\ probe = IdleProbe
    /\ joined = [code \in Codes |-> {}]

(***************************************************************************)
(* Recipients of an emit: socket.emit reaches the requesting socket,       *)
(* io.to(roomCode).emit every socket that joined the socket.io room.       *)
(***************************************************************************)
socketEmit(id) == {id}
ioToEmit(code) == joined[code]

(***************************************************************************)
(* socket.on("createRoom")                                                 *)
(***************************************************************************)
\* createRoomError without the test for an existing room
createRoomErrorNoExists(code, cfg) ==
    LET validationError == validateGameConfig(cfg.number_of_decks, cfg.min_round_cards,
                                              cfg.max_round_cards, cfg.maxPlayers)
    IN  IF validationError # "null" THEN validationError ELSE "none"

createRoomError(code, cfg) ==
    IF code \in DOMAIN rooms THEN "Room already exists"
    ELSE LET validationError == validateGameConfig(cfg.number_of_decks, cfg.min_round_cards,
                                                   cfg.max_round_cards, cfg.maxPlayers)
         IN  IF validationError # "null" THEN validationError ELSE "none"

\* who receives the errorMessage of a rejected createRoom
createRoomErrorTo(code, id, cfg) == socketEmit(id)

createRoom(code, id, cfg) ==
    /\ ~crashed
    /\ id \in connected
    /\ IF createRoomError(code, cfg) # "none"
         THEN UNCHANGED vars
         ELSE /\ rooms' = Put(rooms, code, NewRoom(id, cfg))
              /\ log' = [log EXCEPT ![code] = <<>>]
              /\ joined' = [joined EXCEPT ![code] = @ \cup {id}]
              /\ UNCHANGED <<timers, connected, crashed, probe>>

(***************************************************************************)
(* socket.on("joinRoom")                                                   *)
(***************************************************************************)
\* joinRoomError without the test for a socket that is already in the roster
joinRoomErrorNoMember(code, id) ==
    IF code \notin DOMAIN rooms THEN "Room not found"
    ELSE IF rooms[code].state # WAITING THEN "Game has already started"
    ELSE IF Len(rooms[code].players) >= rooms[code].maxPlayers THEN "Room is full"
    ELSE "none"

\* joinRoomError without the test for a full room
joinRoomErrorNoFull(code, id) ==
    IF code \notin DOMAIN rooms THEN "Room not found"
    ELSE IF id \in Range(rooms[code].players) THEN "You are already in this room"
    ELSE IF rooms[code].state # WAITING THEN "Game has already started"
    ELSE "none"

joinRoomError(code, id) ==
    IF code \notin DOMAIN rooms THEN "Room not found"
    ELSE IF id \in Range(rooms[code].players) THEN "You are already in this room"
    ELSE IF rooms[code].state # WAITING THEN "Game has already started"
    ELSE IF Len(rooms[code].players) >= rooms[code].maxPlayers THEN "Room is full"
    ELSE "none"

\* who receives the errorMessage of a rejected joinRoom
joinRoomErrorTo(code, id) == socketEmit(id)

\* joinRoom pushing the player before the room-full test
joinRoomPushFirst(code, id) ==
    /\ ~crashed
    /\ id \in connected
    /\ IF joinRoomError(code, id) \notin {"none", "Room is full"}
         THEN UNCHANGED vars
         ELSE /\ rooms' = [rooms EXCEPT ![code].players = Append(@, id)]
              /\ joined' = [joined EXCEPT ![code] = @ \cup {id}]
              /\ UNCHANGED <<timers, connected, crashed, log, probe>>

joinRoom(code, id) ==
    /\ ~crashed
    /\ id \in connected
    /\ IF joinRoomError(code, id) # "none"
         THEN UNCHANGED vars
         ELSE /\ rooms' = [rooms EXCEPT ![code].players = Append(@, id)]
              /\ joined' = [joined EXCEPT ![code] = @ \cup {id}]
              /\ UNCHANGED <<timers, connected, crashed, log, probe>>

(***************************************************************************)
(* socket.on("startGame")                                                  *)
(***************************************************************************)
\* startGameError testing the player count before the host
startGameErrorCountFirst(code, id) ==
    IF code \notin DOMAIN rooms THEN "Room not found"
    ELSE IF Len(rooms[code].players) < 2 THEN "Need at least 2 players to start"
    ELSE IF id # rooms[code].host THEN "Only the host can start the game"
    ELSE "none"

startGameError(code, id) ==
    IF code \notin DOMAIN rooms THEN "Room not found"
    ELSE IF id # rooms[code].host THEN "Only the host can start the game"
    ELSE IF Len(rooms[code].players) < 2 THEN "Need at least 2 players to start"
    ELSE "none"

\* who receives the errorMessage of a rejected startGame
startGameErrorTo(code, id) ==
    IF startGameError(code, id) = "Need at least 2 players to start" THEN ioToEmit(code)
    ELSE socketEmit(id)

ZeroScores(room) ==
    [id \in (DOMAIN room.scores) \cup Range(room.players) |->
        IF id \in Range(room.players) THEN 0 ELSE room.scores[id]]

\* deck: what createDeck returns to the startRound this request calls
startGame(code, id, deck) ==
    /\ ~crashed
    /\ id \in connected
    /\ IF startGameError(code, id) # "none"
         THEN UNCHANGED vars
         ELSE /\ LET room == [rooms[code] EXCEPT !.scores = ZeroScores(rooms[code])]
                 IN  /\ rooms' = [rooms EXCEPT ![code] = startRound(room, deck)]
                     /\ log' = [log EXCEPT ![code] =
                                   @ \o <<Event("gameStart", room), Event("roundStart", room)>>]
              /\ UNCHANGED <<timers, connected, crashed, probe, joined>>

(***************************************************************************)
(* socket.on("makePrediction")                                             *)
(***************************************************************************)
makePredictionError(code, id, prediction) ==
    IF code \notin DOMAIN rooms THEN "Not in prediction phase"
    ELSE LET room == rooms[code]
             currentPlayerIndex == FindIndex(room.predictionOrder, id)
             totalPredictions == SumValues(Delete(room.predictions, id))
         IN  IF room.state # PREDICTING THEN "Not in prediction phase"
             ELSE IF id \notin Range(room.players) THEN "Player not found in room"
             ELSE IF prediction < 0 \/ prediction > room.cards_this_round
                    THEN "Prediction must be between 0 and cards_this_round"
             ELSE IF currentPlayerIndex = 0 - 1 THEN "It's not your turn to predict"
             ELSE IF /\ currentPlayerIndex = Len(room.players) - 1
                     /\ totalPredictions + prediction = room.cards_this_round
                    THEN "Last player's prediction cannot make total equal to number of tricks"
             ELSE "none"

\* who receives the errorMessage of a rejected makePrediction
makePredictionErrorTo(code, id, prediction) == socketEmit(id)

\* Predicted without the predictionOrder.filter
PredictedStaysInOrder(room, id, prediction) ==
    [room EXCEPT !.predictions = Put(@, id, prediction)]

\* the room once the prediction is recorded and the requester is taken off predictionOrder
Predicted(room, id, prediction) ==
    [room EXCEPT !.predictions = Put(@, id, prediction),
                 !.predictionOrder = Without(@, id)]

AllPredictionsIn(room) == Cardinality(DOMAIN room.predictions) = Len(room.players)

\* nextPlayer.name is read of room.players.find(p => p.id === room.predictionOrder[0])
NextPredictorMissing(room) ==
    \/ room.predictionOrder = <<>>
    \/ Head(room.predictionOrder) \notin Range(room.players)

makePrediction(code, id, prediction) ==
    /\ ~crashed
    /\ id \in connected
    /\ IF makePredictionError(code, id, prediction) # "none"
         THEN UNCHANGED vars
         ELSE LET room == Predicted(rooms[code], id, prediction)
              IN  IF AllPredictionsIn(room)
                    THEN /\ rooms' = [rooms EXCEPT ![code] =
                                        startPlayPhase([room EXCEPT !.state = PLAYING])]
                         /\ UNCHANGED <<timers, connected, crashed, log, probe, joined>>
                    ELSE /\ rooms' = [rooms EXCEPT ![code] = room]
                         /\ crashed' = NextPredictorMissing(room)
                         /\ UNCHANGED <<timers, connected, log, probe, joined>>


(***************************************************************************)
(* socket.on("playCard")                                                   *)
(***************************************************************************)
\* NotYourTurnToPlay reading the seat list instead of current_play_order
NotYourTurnBySeat(room, id) ==
    /\ Len(room.current_play_order) > 0
    /\ \/ room.next_player_index + 1 \notin 1..Len(room.players)
       \/ room.players[room.next_player_index + 1] # id

\* "Enforce turn order strictly"
NotYourTurnToPlay(room, id) ==
    /\ Len(room.current_play_order) > 0
    /\ \/ room.next_player_index + 1 \notin 1..Len(room.current_play_order)
       \/ room.current_play_order[room.next_player_index + 1] # id

\* BreaksFollowSuit with hand.every in place of hand.some
BreaksFollowSuitEvery(room, hand, cardIndex) ==
    /\ Len(room.current_trick) > 0
    /\ LET leadSuit == room.current_trick[1].card.suit
           hasLeadSuit == \A k \in 1..Len(hand) : hand[k].suit = leadSuit
       IN  hasLeadSuit /\ hand[cardIndex + 1].suit # leadSuit

\* "Check if player must follow suit"
BreaksFollowSuit(room, hand, cardIndex) ==
    /\ Len(room.current_trick) > 0
    /\ LET leadSuit == room.current_trick[1].card.suit
           hasLeadSuit == \E k \in 1..Len(hand) : hand[k].suit = leadSuit
       IN  hasLeadSuit /\ hand[cardIndex + 1].suit # leadSuit

playCardError(code, id, cardIndex) ==
    IF code \notin DOMAIN rooms THEN "Not in play phase"
    ELSE LET room == rooms[code]
         IN  IF room.state # PLAYING THEN "Not in play phase"
             ELSE IF id \notin Range(room.players) THEN "Player not found"
             ELSE IF NotYourTurnToPlay(room, id) THEN "It's not your turn to play"
             ELSE IF \/ id \notin DOMAIN room.playerHands
                     \/ cardIndex < 0
                     \/ cardIndex >= Len(room.playerHands[id])
                    THEN "Invalid card selection"
             ELSE IF BreaksFollowSuit(room, room.playerHands[id], cardIndex)
                    THEN "You must follow the lead suit if possible"
             ELSE "none"

\* who receives the errorMessage of a rejected playCard
playCardErrorTo(code, id, cardIndex) == socketEmit(id)

TrumpOf(room) == trump_rotation[((room.current_round - 1) % 4) + 1]

\* the card leaves the hand, joins the trick, and the cursor advances
CardPlayed(room, id, cardIndex) ==
    LET hand == room.playerHands[id]
    IN  [room EXCEPT
            !.playerHands = Put(@, id, RemoveAt(hand, cardIndex)),
            !.current_trick = Append(@, [playerId |-> id, card |-> hand[cardIndex + 1]]),
            !.next_player_index =
                IF Len(room.current_play_order) > 0 THEN (@ + 1) % Len(room.players) ELSE @]

TrickComplete(room) == Len(room.current_trick) = Len(room.players)

\* the winner's trick count goes up and the trick is cleared
TrickWon(room) ==
    LET winningPlay == determineTrickWinner(room.current_trick, TrumpOf(room))
    IN  [room EXCEPT
            !.tricks_won = Put(@, winningPlay.playerId, Get(@, winningPlay.playerId, 0) + 1),
            !.current_trick = <<>>]

RoundOver(room) == SumValues(room.tricks_won) = room.cards_this_round

\* the next trick led in the order of the previous one
NextTrickSameOrder(room, winnerId) ==
    [room EXCEPT !.next_player_index = 0]

\* "Next trick starts with the winner"
NextTrick(room, winnerId) ==
    [room EXCEPT
        !.current_play_order = Rotate(room.players, FindIndex(room.players, winnerId)),
        !.next_player_index = 0]

playCard(code, id, cardIndex) ==
    /\ ~crashed
    /\ id \in connected
    /\ IF playCardError(code, id, cardIndex) # "none"
         THEN UNCHANGED vars
         ELSE LET played == CardPlayed(rooms[code], id, cardIndex)
                  winnerId == determineTrickWinner(played.current_trick, TrumpOf(played)).playerId
                  won == TrickWon(played)
              IN  /\ IF ~TrickComplete(played)
                       THEN /\ rooms' = [rooms EXCEPT ![code] = played]
                            /\ timers' = timers
                       ELSE IF RoundOver(won)
                         THEN /\ rooms' = [rooms EXCEPT ![code] = won]
                              /\ timers' = Append(timers, Timer(code, "endRound", END_ROUND_DELAY))
                         ELSE /\ rooms' = [rooms EXCEPT ![code] = NextTrick(won, winnerId)]
                              /\ timers' = timers
                  /\ UNCHANGED <<connected, crashed, log, probe, joined>>

(***************************************************************************)
(* setTimeout callbacks.  Timers fire in the order of their expiry: a      *)
(* timer cannot fire while one that was scheduled before it, with a delay  *)
(* no longer than its own, is still pending.                               *)
(***************************************************************************)
CanFire(i) == \A j \in 1..(i - 1) : timers[j].delay > timers[i].delay

Cancel(i) == SubSeq(timers, 1, i - 1) \o SubSeq(timers, i + 1, Len(timers))

\* setTimeout(() => startRound(roomCode), ...); deck: what createDeck returns to it
fireStartRound(i, deck) ==
    LET code == timers[i].code
    IN  /\ ~crashed
        /\ i \in 1..Len(timers)
        /\ timers[i].fn = "startRound"
        /\ CanFire(i)
        /\ IF code \notin DOMAIN rooms
             THEN \* room.number_of_decks of undefined
                  /\ crashed' = TRUE
                  /\ timers' = Cancel(i)
                  /\ UNCHANGED <<rooms, connected, log, probe, joined>>
             ELSE /\ rooms' = [rooms EXCEPT ![code] = startRound(rooms[code], deck)]
                  /\ log' = [log EXCEPT ![code] = Append(@, Event("roundStart", rooms[code]))]
                  /\ timers' = Cancel(i)
                  /\ UNCHANGED <<connected, crashed, probe, joined>>

\* setTimeout(() => endRound(roomCode), 4000)
fireEndRound(i) ==
    LET code == timers[i].code
    IN  /\ ~crashed
        /\ i \in 1..Len(timers)
        /\ timers[i].fn = "endRound"
        /\ CanFire(i)
        /\ IF code \notin DOMAIN rooms
             THEN \* room.state = ... of undefined
                  /\ crashed' = TRUE
                  /\ timers' = Cancel(i)
                  /\ UNCHANGED <<rooms, connected, log, probe, joined>>
             ELSE LET room == rooms[code]
                      over == IsGameOver(room)
                  IN  /\ rooms' = [rooms EXCEPT ![code] = endRound(room)]
                      /\ log' = [log EXCEPT ![code] =
                                    IF over THEN @ \o <<Event("roundEnd", room), Event("gameOver", room)>>
                                    ELSE Append(@, Event("roundEnd", room))]
                      /\ timers' = Append(Cancel(i),
                                          IF over THEN Timer(code, "startRound", NEW_GAME_DELAY)
                                          ELSE Timer(code, "startRound", NEXT_ROUND_DELAY))
                      /\ UNCHANGED <<connected, crashed, probe, joined>>

(***************************************************************************)
(* socket.on("disconnect")                                                 *)
(***************************************************************************)
\* a room whose roster holds the socket, after the handler's loop body
Left(room, id) ==
    LET players == Without(room.players, id)
        left == [room EXCEPT !.players = players]
    IN  IF room.state = WAITING THEN left
        ELSE IF Len(players) >= 2
          THEN [left EXCEPT
                   !.scores = Delete(@, id),
                   !.playerHands = Delete(@, id),
                   !.turn_index = @ % Len(players),
                   !.predictions = EmptyObj,
                   !.tricks_won = EmptyObj,
                   !.current_trick = <<>>,
                   !.current_play_order = <<>>,
                   !.next_player_index = 0,
                   !.state = PREDICTING]
        ELSE [left EXCEPT !.state = WAITING]

\* the handler's loop body without the playerIndex !== -1 test
MemberOfAny(code, id) == TRUE

Member(code, id) == id \in Range(rooms[code].players)
Restarts(code, id) ==
    /\ Member(code, id)
    /\ rooms[code].state # WAITING
    /\ Len(rooms[code].players) - 1 >= 2

RECURSIVE RestartTimers(_)
RestartTimers(codes) ==
    IF codes = {} THEN <<>>
    ELSE LET code == CHOOSE x \in codes : TRUE
         IN  <<Timer(code, "startRound", RESTART_DELAY)>> \o RestartTimers(codes \ {code})

\* the handler without the deletion of the emptied room
disconnectKeepsEmpty(id) ==
    /\ ~crashed
    /\ id \in connected
    /\ connected' = connected \ {id}
    /\ rooms' = [code \in DOMAIN rooms |->
                    IF Member(code, id) THEN Left(rooms[code], id) ELSE rooms[code]]
    /\ timers' = timers \o RestartTimers({ code \in DOMAIN rooms : Restarts(code, id) })
    /\ joined' = [code \in DOMAIN joined |-> joined[code] \ {id}]
    /\ UNCHANGED <<crashed, log, probe>>

disconnect(id) ==
    /\ ~crashed
    /\ id \in connected
    /\ connected' = connected \ {id}
    /\ LET kept == { code \in DOMAIN rooms : ~(Member(code, id) /\ Len(rooms[code].players) = 1) }
       IN  rooms' = [code \in kept |->
                        IF Member(code, id) THEN Left(rooms[code], id) ELSE rooms[code]]
    /\ timers' = timers \o RestartTimers({ code \in DOMAIN rooms : Restarts(code, id) })
    /\ joined' = [code \in DOMAIN joined |-> joined[code] \ {id}]
    /\ UNCHANGED <<crashed, log, probe>>

(***************************************************************************)
(* A direct call of determineTrickWinner on a trick of 1..MaxTrick plays.  *)
(***************************************************************************)
TrickCards == { [rank |-> r, suit |-> su] : r \in TrickRanks, su \in Suits }
Tricks(n) == { [i \in 1..n |-> [playerId |-> i, card |-> f[i]]] : f \in [1..n -> TrickCards] }

resolveTrick ==
    /\ probe.winner = 0
    /\ probe' = [probe EXCEPT !.winner = determineTrickWinner(probe.trick, probe.trump).playerId]
    /\ UNCHANGED <<rooms, timers, connected, crashed, log, joined>>

(***************************************************************************)
(* The server.  The decks a startRound may get from createDeck, and the    *)
(* number of rounds after which the exploration stops.                     *)
(***************************************************************************)
DecksFor(cards, code) ==
    IF code \in DOMAIN rooms
      THEN createDeck(cards, rooms[code].number_of_decks, Need(rooms[code]))
      ELSE { <<>> }

Budget(code, maxDeals) == code \in DOMAIN rooms => Deals(code) < maxDeals

Requests(configs) ==
    \/ \E code \in Codes, id \in Creators, cfg \in configs : createRoom(code, id, cfg)
    \/ \E code \in Codes, id \in Conns : joinRoom(code, id)
    \/ \E code \in Codes, id \in Conns, prediction \in PredictionInputs :
          makePrediction(code, id, prediction)
    \/ \E code \in Codes, id \in Conns, cardIndex \in CardIndexInputs :
          playCard(code, id, cardIndex)

Rounds(cards, maxDeals) ==
    \/ \E code \in Codes, id \in Conns :
          IF startGameError(code, id) # "none" THEN startGame(code, id, <<>>)
          ELSE /\ Budget(code, maxDeals)
               /\ \E deck \in DecksFor(cards, code) : startGame(code, id, deck)
    \/ \E i \in 1..Len(timers) :
          /\ timers[i].fn = "startRound"
          /\ Budget(timers[i].code, maxDeals)
          /\ \E deck \in DecksFor(cards, timers[i].code) : fireStartRound(i, deck)
    \/ \E i \in 1..Len(timers) : fireEndRound(i)

Next ==
    \/ Requests(Configs)
    \/ Rounds(DeckCards, MaxDeals)
    \/ \E id \in Conns : disconnect(id)

Spec == Init /\ [][Next]_vars

\* games in which nobody disconnects
NextGame ==
    \/ Requests(GameConfigs)
    \/ Rounds(GameCards, MaxGameDeals)

SpecGame == Init /\ [][NextGame]_vars

\* the requests and their refusals, on rooms of two and three seats
NextLobby ==
    \/ Requests(LobbyConfigs)
    \/ Rounds(LobbyCards, MaxDeals)
    \/ \E id \in Conns : disconnect(id)

SpecLobby == Init /\ [][NextLobby]_vars

\* games of three seats in which players disconnect and rounds are restarted
NextRestart ==
    \/ Requests(GameConfigs)
    \/ Rounds(GameCards, MaxRestartDeals)
    \/ \E id \in Conns : disconnect(id)

SpecRestart == Init /\ [][NextRestart]_vars

\* whole games of two seats, up to the automatic restart after game over
NextDuel ==
    \/ Requests(DuelConfigs)
    \/ Rounds(GameCards, MaxDuelDeals)

SpecDuel == Init /\ [][NextDuel]_vars

\* determineTrickWinner alone
InitTrick ==
    /\ rooms = EmptyObj
    /\ timers = <<>>
    /\ connected = Conns
    /\ crashed = FALSE
    /\ log = [code \in Codes |-> <<>>]
    /\ joined = [code \in Codes |-> {}]
    /\ \E n \in 1..MaxTrick : \E trick \in Tricks(n), trump \in Suits :
          probe = [trick |-> trick, trump |-> trump, winner |-> 0]

SpecTrick == InitTrick /\ [][resolveTrick]_vars


(***************************************************************************)
(* Properties.                                                             *)
(***************************************************************************)
Last(s) == s[Len(s)]

\* C1: whenever the predictions of a round are complete (the room is in
\* PLAYING), the sum of the recorded predictions differs from cardsThisRound.
C1_PredictionSumDiffers ==
    \A code \in DOMAIN rooms :
        rooms[code].state = PLAYING =>
            SumValues(rooms[code].predictions) # rooms[code].cards_this_round

\* a step in which the makePrediction of `id` is accepted in room `code`
PredictionAccepted(code, id) ==
    /\ code \in DOMAIN rooms /\ code \in DOMAIN rooms'
    /\ rooms[code].state = PREDICTING
    /\ id \notin DOMAIN rooms[code].predictions
    /\ id \in DOMAIN rooms'[code].predictions

\* C2: in PREDICTING a makePrediction is accepted only from the connection at
\* the head of predictionOrder, so predictions are recorded in rotation order.
C2_OnlyHeadPredicts ==
    [][\A code \in Codes, id \in Conns :
          PredictionAccepted(code, id) =>
              /\ rooms[code].predictionOrder # <<>>
              /\ id = Head(rooms[code].predictionOrder)]_vars

\* a step in which the playCard of `id` is accepted in room `code`
CardAccepted(code, id) ==
    /\ code \in DOMAIN rooms /\ code \in DOMAIN rooms'
    /\ rooms[code].state = PLAYING /\ rooms'[code].state = PLAYING
    /\ id \in DOMAIN rooms[code].playerHands
    /\ id \in DOMAIN rooms'[code].playerHands
    /\ Len(rooms'[code].playerHands[id]) = Len(rooms[code].playerHands[id]) - 1

\* the plays of the trick in progress were made in current_play_order order
TrickFollowsOrder(room) ==
    /\ Len(room.current_trick) <= Len(room.current_play_order)
    /\ \A i \in 1..Len(room.current_trick) :
          room.current_trick[i].playerId = room.current_play_order[i]
    /\ \A i, j \in 1..Len(room.current_trick) :
          i # j => room.current_trick[i].playerId # room.current_trick[j].playerId

\* C3: in PLAYING a playCard is accepted only from the connection at
\* currentPlayOrder[nextPlayerIndex]; the cards of currentTrick appear in
\* currentPlayOrder order and each player has at most one card in the trick.
C3_PlayTurnOrder ==
    /\ [][\A code \in Codes, id \in Conns :
            CardAccepted(code, id) =>
                /\ rooms[code].next_player_index + 1 \in 1..Len(rooms[code].current_play_order)
                /\ rooms[code].current_play_order[rooms[code].next_player_index + 1] = id]_vars
    /\ [](\A code \in DOMAIN rooms :
            rooms[code].state = PLAYING => TrickFollowsOrder(rooms[code]))

\* a second trick is in progress, led by a player other than the first seat
C3_Witness ==
    \E code \in DOMAIN rooms :
        /\ rooms[code].state = PLAYING
        /\ SumValues(rooms[code].tricks_won) >= 1
        /\ Len(rooms[code].current_trick) = 1
        /\ rooms[code].current_play_order[1] # rooms[code].players[1]
        /\ rooms[code].current_trick[1].playerId = rooms[code].current_play_order[1]

HasSuit(hand, suit) == \E k \in 1..Len(hand) : hand[k].suit = suit

\* C4: on a non-empty trick an off-suit card is rejected when the hand holds
\* a lead-suit card and accepted when it holds none; every off-suit card of
\* currentTrick came from a hand without a lead-suit card.
C4_FollowSuit ==
    /\ [][\A code \in Codes, id \in Conns :
            (CardAccepted(code, id) /\ rooms[code].current_trick # <<>>) =>
                LET hand == rooms[code].playerHands[id]
                    leadSuit == rooms[code].current_trick[1].card.suit
                IN  \A k \in 0..(Len(hand) - 1) :
                        rooms'[code].playerHands[id] = RemoveAt(hand, k) =>
                            (hand[k + 1].suit = leadSuit \/ ~HasSuit(hand, leadSuit))]_vars
    /\ [](\A code \in DOMAIN rooms :
            LET room == rooms[code]
            IN  (room.state = PLAYING /\ room.current_trick # <<>>) =>
                  LET leadSuit == room.current_trick[1].card.suit
                  IN  /\ \A i \in 2..Len(room.current_trick) :
                            room.current_trick[i].card.suit # leadSuit =>
                                ~HasSuit(room.playerHands[room.current_trick[i].playerId], leadSuit)
                      /\ \A id \in (Range(room.players) \cap connected) \cap DOMAIN room.playerHands :
                            \A k \in 0..(Len(room.playerHands[id]) - 1) :
                                LET hand == room.playerHands[id]
                                IN  /\ (hand[k + 1].suit # leadSuit /\ HasSuit(hand, leadSuit))
                                          => playCardError(code, id, k) # "none"
                                    /\ (~HasSuit(hand, leadSuit) /\ ~NotYourTurnToPlay(room, id))
                                          => playCardError(code, id, k) = "none")

\* the player whose turn it is holds a lead-suit card and an off-suit card
C4_Witness ==
    \E code \in DOMAIN rooms :
        LET room == rooms[code]
        IN  /\ room.state = PLAYING
            /\ room.current_trick # <<>>
            /\ \E id \in DOMAIN room.playerHands :
                  /\ ~NotYourTurnToPlay(room, id)
                  /\ HasSuit(room.playerHands[id], room.current_trick[1].card.suit)
                  /\ \E k \in 1..Len(room.playerHands[id]) :
                        room.playerHands[id][k].suit # room.current_trick[1].card.suit


\* rank order 2 < 3 < ... < 10 < J < Q < K < A
RankOrder == <<"2", "3", "4", "5", "6", "7", "8", "9", "10", "J", "Q", "K", "A">>
RankPos(rank) == CHOOSE n \in 1..Len(RankOrder) : RankOrder[n] = rank

\* positions of the trick whose card can take it: the trump cards if any
\* trump was played, otherwise the cards of the lead suit
Contenders(trick, trumpSuit) ==
    LET trumps == { i \in 1..Len(trick) : trick[i].card.suit = trumpSuit }
    IN  IF trumps # {} THEN trumps
        ELSE { i \in 1..Len(trick) : trick[i].card.suit = trick[1].card.suit }

\* C5: determineTrickWinner returns the play with the highest-ranked trump
\* if a trump was played, otherwise the highest-ranked card of the lead
\* suit; a card of neither suit never wins.
C5_TrickWinner ==
    probe.winner # 0 =>
        /\ \A n \in 1..(Len(RankOrder) - 1) :
              getCardValue(RankOrder[n]) < getCardValue(RankOrder[n + 1])
        /\ probe.winner \in Contenders(probe.trick, probe.trump)
        /\ \A i \in Contenders(probe.trick, probe.trump) :
              RankPos(probe.trick[i].card.rank) <= RankPos(probe.trick[probe.winner].card.rank)

\* a low trump played after the lead wins against a higher off-suit card
C5_Witness ==
    /\ probe.winner > 1
    /\ probe.trick[probe.winner].card.suit = probe.trump
    /\ probe.trick[1].card.suit # probe.trump
    /\ \E i \in 1..Len(probe.trick) :
          /\ probe.trick[i].card.suit \notin {probe.trump, probe.trick[1].card.suit}
          /\ RankPos(probe.trick[i].card.rank) > RankPos(probe.trick[probe.winner].card.rank)
          /\ RankPos(probe.trick[i].card.rank) > RankPos(probe.trick[1].card.rank)

\* C6: among the cards tied for the winning rank (trumps, or lead-suit cards
\* when no trump was played) determineTrickWinner returns the latest played.
C6_TieBreakLatest ==
    probe.winner # 0 =>
        \A i \in Contenders(probe.trick, probe.trump) :
            probe.trick[i].card.rank = probe.trick[probe.winner].card.rank => i <= probe.winner

\* two equal cards tie for the winning rank and the later one is returned
C6_Witness ==
    /\ probe.winner > 1
    /\ \E i \in 1..(probe.winner - 1) :
          /\ i \in Contenders(probe.trick, probe.trump)
          /\ probe.trick[i].card = probe.trick[probe.winner].card


\* a step in which endRound runs on room `code`
EndRoundStep(code) ==
    /\ code \in DOMAIN rooms /\ code \in DOMAIN rooms'
    /\ Len(log'[code]) > Len(log[code])
    /\ log'[code][Len(log[code]) + 1].ev = "roundEnd"

\* C7: endRound changes each current player's cumulative score by exactly
\* +(10 + 11*actual) when the prediction equals the tricks won and by exactly
\* -|predicted - actual| otherwise.
C7_ScoreDelta ==
    [][\A code \in Codes :
          EndRoundStep(code) =>
              \A id \in Range(rooms[code].players) :
                  LET predicted == Get(rooms[code].predictions, id, 0)
                      actual == Get(rooms[code].tricks_won, id, 0)
                      before == Get(rooms[code].scores, id, 0)
                  IN  rooms'[code].scores[id] =
                          IF predicted = actual THEN before + 10 + 11 * actual
                          ELSE before - Abs(predicted - actual)]_vars

\* C8: in every reachable state of every room,
\* minRoundCards <= cardsThisRound <= maxRoundCards.
C8_CardsInRange ==
    \A code \in DOMAIN rooms :
        /\ rooms[code].min_round_cards <= rooms[code].cards_this_round
        /\ rooms[code].cards_this_round <= rooms[code].max_round_cards

\* min, min+1, ..., max, max-1, ..., min
Schedule(min, max) ==
    [i \in 1..(2 * (max - min) + 1) |->
        IF i <= max - min + 1 THEN min + i - 1 ELSE max - (i - (max - min + 1))]

IsBoundary(e) == e.ev \in {"gameStart", "gameOver"}
\* position of the last gameStart or gameOver among the first n events, or 0
LastBoundary(l, n) ==
    IF \E i \in 1..n : IsBoundary(l[i])
      THEN CHOOSE i \in 1..n : IsBoundary(l[i]) /\ \A j \in (i + 1)..n : ~IsBoundary(l[j])
      ELSE 0
\* cardsThisRound of the rounds started among events from+1 .. to
DealtCards(l, from, to) ==
    LET starts == SelectSeq(SubSeq(l, from + 1, to), LAMBDA e : e.ev = "roundStart")
    IN  [i \in 1..Len(starts) |-> starts[i].cards]
IsPrefix(s, t) == Len(s) <= Len(t) /\ \A i \in 1..Len(s) : s[i] = t[i]

\* C9: with minRoundCards < maxRoundCards and no disconnects, the rounds of
\* a game are dealt min, min+1, ..., max, max-1, ..., min cards, the
\* ascending flag is true up to and including the round at max and false
\* after it, and game over is declared only after the last round of that
\* schedule.
C9_RoundSchedule ==
    \A code \in DOMAIN rooms :
        LET room == rooms[code]
            l == log[code]
            sched == Schedule(room.min_round_cards, room.max_round_cards)
            dealt == DealtCards(l, LastBoundary(l, Len(l)), Len(l))
        IN  room.min_round_cards < room.max_round_cards =>
              /\ IsPrefix(dealt, sched)
              /\ (room.state \in {PREDICTING, PLAYING} /\ dealt # <<>>) =>
                    (room.ascending <=>
                        Len(dealt) <= room.max_round_cards - room.min_round_cards + 1)
              /\ (l # <<>> /\ Last(l).ev = "gameOver") =>
                    DealtCards(l, LastBoundary(l, Len(l) - 1), Len(l)) = sched

\* C10: in a room created with minRoundCards == maxRoundCards the first
\* endRound ends the game: every roundEnd is followed at once by gameOver.
C10_SingleRoundGame ==
    \A code \in DOMAIN rooms :
        rooms[code].min_round_cards = rooms[code].max_round_cards =>
            \A i \in 1..Len(log[code]) :
                log[code][i].ev = "roundEnd" =>
                    /\ i < Len(log[code])
                    /\ log[code][i + 1].ev = "gameOver"

\* C11: endRound runs only on a room in PLAYING whose tricks_won values sum
\* to cardsThisRound, and no round is scored twice: between two roundEnd
\* events of a room a round was started.
C11_EndRoundWhenExhausted ==
    /\ [][\A code \in Codes :
            EndRoundStep(code) =>
                /\ rooms[code].state = PLAYING
                /\ SumValues(rooms[code].tricks_won) = rooms[code].cards_this_round]_vars
    /\ [](\A code \in Codes :
            \A i, j \in 1..Len(log[code]) :
                (i < j /\ log[code][i].ev = "roundEnd" /\ log[code][j].ev = "roundEnd") =>
                    \E k \in (i + 1)..(j - 1) : log[code][k].ev = "roundStart")

\* C12: in every reachable state of every room the tricks_won values sum to
\* at most cardsThisRound.
C12_TricksWithinRound ==
    \A code \in DOMAIN rooms :
        SumValues(rooms[code].tricks_won) <= rooms[code].cards_this_round

\* the createRoom payloads of all specifications
AllConfigs == Configs \cup GameConfigs \cup LobbyConfigs \cup DuelConfigs

\* C13: a createRoom, joinRoom, startGame, makePrediction or playCard that
\* the server rejects leaves the whole room map exactly as it was: in no
\* reachable state can the step of a rejected request change the room map.
C13_RejectedLeavesRooms ==
    /\ \A code \in Codes, id \in Creators, cfg \in AllConfigs :
          createRoomError(code, cfg) # "none" =>
              ~ENABLED (createRoom(code, id, cfg) /\ rooms' # rooms)
    /\ \A code \in Codes, id \in Conns :
          joinRoomError(code, id) # "none" =>
              ~ENABLED (joinRoom(code, id) /\ rooms' # rooms)
    /\ \A code \in Codes, id \in Conns :
          startGameError(code, id) # "none" =>
              ~ENABLED (startGame(code, id, <<>>) /\ rooms' # rooms)
    /\ \A code \in Codes, id \in Conns, prediction \in PredictionInputs :
          makePredictionError(code, id, prediction) # "none" =>
              ~ENABLED (makePrediction(code, id, prediction) /\ rooms' # rooms)
    /\ \A code \in Codes, id \in Conns, cardIndex \in CardIndexInputs :
          playCardError(code, id, cardIndex) # "none" =>
              ~ENABLED (playCard(code, id, cardIndex) /\ rooms' # rooms)

\* the last player of the prediction order asks for the forbidden value
\* while a full room refuses a third player
C13_Witness ==
    \E code \in DOMAIN rooms, id \in connected, other \in connected :
        /\ makePredictionError(code, id, rooms[code].cards_this_round) =
              "Last player's prediction cannot make total equal to number of tricks"
        /\ joinRoomError(code, other) = "Game has already started"

\* C14: the error notification of a rejected createRoom, joinRoom,
\* startGame, makePrediction or playCard reaches the requesting connection
\* and no other.
C14_ErrorsUnicast ==
    \A code \in Codes, id \in connected :
        /\ \A cfg \in AllConfigs :
              createRoomError(code, cfg) # "none" => createRoomErrorTo(code, id, cfg) = {id}
        /\ joinRoomError(code, id) # "none" => joinRoomErrorTo(code, id) = {id}
        /\ startGameError(code, id) # "none" => startGameErrorTo(code, id) = {id}
        /\ \A prediction \in PredictionInputs :
              makePredictionError(code, id, prediction) # "none" =>
                  makePredictionErrorTo(code, id, prediction) = {id}
        /\ \A cardIndex \in CardIndexInputs :
              playCardError(code, id, cardIndex) # "none" =>
                  playCardErrorTo(code, id, cardIndex) = {id}

\* after a game was started and a player left, the host asks to start the
\* game alone while another connection is open
C14_Witness ==
    \E code \in DOMAIN rooms, id \in connected :
        /\ startGameError(code, id) = "Need at least 2 players to start"
        /\ log[code] # <<>>
        /\ connected \ {id} # {}

\* the socket.io room of a code holds exactly the roster of the room
JoinedIsRoster ==
    \A code \in Codes :
        joined[code] = IF code \in DOMAIN rooms THEN Range(rooms[code].players) ELSE {}

\* the six constraints on a room configuration
ConfigOk(cfg) ==
    /\ cfg.number_of_decks >= 1
    /\ cfg.min_round_cards >= 1
    /\ cfg.max_round_cards >= 1
    /\ cfg.min_round_cards <= cfg.max_round_cards
    /\ cfg.maxPlayers >= 2
    /\ cfg.max_round_cards * cfg.maxPlayers <= 52 * cfg.number_of_decks

C16_RoomCodesUnique ==
    \A code \in Codes, id \in Creators, cfg \in AllConfigs :
        IF code \in DOMAIN rooms
          THEN /\ createRoomError(code, cfg) = "Room already exists"
               /\ ~ENABLED (createRoom(code, id, cfg) /\ rooms' # rooms)
          ELSE createRoomError(code, cfg) = "none" =>
                 ~ENABLED (/\ createRoom(code, id, cfg)
                           /\ ~(/\ code \in DOMAIN rooms'
                                /\ rooms'[code].state = WAITING
                                /\ rooms'[code].players = <<id>>
                                /\ rooms'[code].host = id))

\* the creator of a room whose game is being played is still connected
C16_Witness ==
    \E code \in DOMAIN rooms :
        /\ rooms[code].state = PLAYING
        /\ rooms[code].host \in connected \cap Creators
        /\ Len(rooms[code].players) >= 2
        /\ rooms[code].current_trick # <<>>

\* C17: a joinRoom from a connection that is already in the roster fails
\* with the already-joined error in every state of the room and changes
\* nothing, and no connection appears twice in a roster.
C17_JoinIdempotent ==
    \A code \in DOMAIN rooms :
        LET players == rooms[code].players
        IN  /\ \A id \in Range(players) :
                  /\ joinRoomError(code, id) = "You are already in this room"
                  /\ ~ENABLED (joinRoom(code, id) /\ vars' # vars)
            /\ \A i, j \in 1..Len(players) : i # j => players[i] # players[j]

\* a full room whose game has started, with its members connected
C17_Witness ==
    \E code \in DOMAIN rooms :
        /\ rooms[code].state \in {PREDICTING, PLAYING, SCORING}
        /\ Len(rooms[code].players) = rooms[code].maxPlayers
        /\ Range(rooms[code].players) \subseteq connected

\* C18: the roster of a room grows only by one player at a time, in a room
\* that is in WAITING with fewer than maxPlayers players, and the player
\* count never exceeds maxPlayers.
C18_RosterGrowth ==
    /\ [][\A code \in Codes :
            (/\ code \in DOMAIN rooms /\ code \in DOMAIN rooms'
             /\ rooms'[code].players # rooms[code].players
             /\ Range(rooms'[code].players) \ Range(rooms[code].players) # {}) =>
                /\ rooms[code].state = WAITING
                /\ Len(rooms[code].players) < rooms[code].maxPlayers
                /\ \E id \in Conns : /\ joinRoomError(code, id) = "none"
                                     /\ rooms'[code].players = Append(rooms[code].players, id)]_vars
    /\ [](\A code \in DOMAIN rooms :
            /\ Len(rooms[code].players) <= rooms[code].maxPlayers
            /\ \A id \in Conns :
                  (rooms[code].state # WAITING \/ Len(rooms[code].players) >= rooms[code].maxPlayers)
                      => joinRoomError(code, id) # "none")

\* a room of two seats is full and a third connection asks to join
C18_Witness ==
    \E code \in DOMAIN rooms, id \in connected :
        /\ rooms[code].maxPlayers = 2
        /\ joinRoomError(code, id) = "Room is full"

\* a step in which a startGame request is accepted in room `code`
StartGameStep(code) ==
    /\ code \in DOMAIN rooms /\ code \in DOMAIN rooms'
    /\ Len(log'[code]) = Len(log[code]) + 2
    /\ log'[code][Len(log[code]) + 1].ev = "gameStart"

\* C19: startGame from a connection other than the host, or on a room with
\* fewer than 2 players, is rejected; every accepted startGame sets the
\* score of every current player to 0 and begins round 1: currentRound = 1,
\* state PREDICTING, a hand of cardsThisRound cards dealt to every player.
C19_StartGame ==
    /\ [][\A code \in Codes :
            StartGameStep(code) =>
                LET room == rooms'[code]
                IN  /\ Len(rooms[code].players) >= 2
                    /\ \A id \in Range(room.players) : Get(room.scores, id, NaN) = 0
                    /\ room.current_round = 1
                    /\ room.state = PREDICTING
                    /\ \A id \in Range(room.players) :
                          /\ id \in DOMAIN room.playerHands
                          /\ Len(room.playerHands[id]) = room.cards_this_round]_vars
    /\ [](\A code \in DOMAIN rooms, id \in Conns :
            (id # rooms[code].host \/ Len(rooms[code].players) < 2) =>
                startGameError(code, id) # "none")

\* the edges of the round state machine
StateEdges ==
    { <<WAITING, PREDICTING>>, <<PREDICTING, PLAYING>>, <<PLAYING, SCORING>>,
      <<SCORING, PREDICTING>>, <<SCORING, WAITING>> }

\* a step in which endRound declares game over in room `code`: the room
\* passes through SCORING and ends the step in WAITING
GameOverStep(code) ==
    /\ EndRoundStep(code)
    /\ Last(log'[code]).ev = "gameOver"

\* C20: apart from the steps of the disconnect handler, the state of a room
\* changes only along WAITING -> PREDICTING -> PLAYING -> SCORING ->
\* PREDICTING | WAITING, and a startGame request is accepted only for a
\* room in WAITING.
C20_StateMachine ==
    [][\A code \in Codes :
          (code \in DOMAIN rooms /\ code \in DOMAIN rooms' /\ connected' = connected) =>
              /\ rooms'[code].state # rooms[code].state =>
                    \/ <<rooms[code].state, rooms'[code].state>> \in StateEdges
                    \/ (GameOverStep(code) /\ rooms[code].state = PLAYING)
              /\ EndRoundStep(code) => rooms[code].state = PLAYING
              /\ StartGameStep(code) => rooms[code].state = WAITING]_vars

\* a step in which the disconnect handler takes `id` out of room `code`
\* and at least 2 players remain in a game in progress
RestartingDisconnect(code, id) ==
    /\ code \in DOMAIN rooms /\ code \in DOMAIN rooms'
    /\ id \in connected /\ id \notin connected'
    /\ id \in Range(rooms[code].players)
    /\ rooms[code].state # WAITING
    /\ Len(rooms[code].players) - 1 >= 2

\* the restart scheduled by the disconnect handler is pending for room `code`
RestartPending(code) ==
    \E i \in 1..Len(timers) : timers[i] = Timer(code, "startRound", RESTART_DELAY)

\* scores of the current players, round number and round size
Standing(room) ==
    [scores |-> [id \in Range(room.players) |-> Get(room.scores, id, NaN)],
     round |-> room.current_round,
     cards |-> room.cards_this_round]

\* C21: a disconnect that leaves at least 2 players in a game in progress
\* keeps the remaining players' scores, currentRound and cardsThisRound,
\* removes the departed connection from players, scores, predictions,
\* tricksWon, playerHands and currentPlayOrder, and those scores and
\* counters are still the same when the restarted round begins.
C21_DisconnectRestart ==
    [][\A code \in Codes :
          /\ \A id \in Conns :
                RestartingDisconnect(code, id) =>
                    LET room == rooms'[code]
                    IN  /\ room.players = Without(rooms[code].players, id)
                        /\ \A p \in Range(room.players) :
                              Get(room.scores, p, NaN) = Get(rooms[code].scores, p, NaN)
                        /\ room.current_round = rooms[code].current_round
                        /\ room.cards_this_round = rooms[code].cards_this_round
                        /\ id \notin DOMAIN room.scores
                        /\ id \notin DOMAIN room.predictions
                        /\ id \notin DOMAIN room.tricks_won
                        /\ id \notin DOMAIN room.playerHands
                        /\ id \notin Range(room.current_play_order)
          /\ (/\ code \in DOMAIN rooms /\ code \in DOMAIN rooms'
              /\ RestartPending(code)
              /\ connected' = connected) =>
                Standing(rooms'[code]) = Standing(rooms[code])]_vars

\* a step in which the disconnect handler takes `id` out of room `code`
\* and fewer than 2 players remain in a game in progress
AbandoningDisconnect(code, id) ==
    /\ code \in DOMAIN rooms /\ code \in DOMAIN rooms'
    /\ id \in connected /\ id \notin connected'
    /\ id \in Range(rooms[code].players)
    /\ rooms[code].state # WAITING
    /\ Len(rooms[code].players) - 1 < 2

\* room `code` is in WAITING after a round was dealt and is not waiting for
\* the restart that follows game over: its round was abandoned
Abandoned(code) ==
    /\ code \in DOMAIN rooms
    /\ rooms[code].state = WAITING
    /\ log[code] # <<>>
    /\ Last(log[code]).ev # "gameOver"

\* C22: a disconnect that leaves fewer than 2 players in a game in progress
\* sets the state to WAITING and schedules no restart; the room then stays
\* in WAITING, with no round started and no round scored, until a startGame
\* request is accepted.
C22_AbandonedStaysWaiting ==
    [][\A code \in Codes :
          /\ \A id \in Conns :
                AbandoningDisconnect(code, id) =>
                    /\ rooms'[code].state = WAITING
                    /\ timers' = timers
          /\ (Abandoned(code) /\ code \in DOMAIN rooms' /\ ~StartGameStep(code)) =>
                /\ rooms'[code].state = WAITING
                /\ log'[code] = log[code]
                /\ \A id \in Range(rooms'[code].players) :
                      Get(rooms'[code].scores, id, NaN) = Get(rooms[code].scores, id, NaN)]_vars

\* C23: a room is deleted exactly when its player list becomes empty: no
\* room of the room map has an empty player list, and a room leaves the map
\* only in the step in which its last player disconnects.
C23_RoomLifecycle ==
    /\ [][\A code \in Codes :
            (code \in DOMAIN rooms /\ code \notin DOMAIN rooms') =>
                \E id \in connected \ connected' : rooms[code].players = <<id>>]_vars
    /\ [](\A code \in DOMAIN rooms : Len(rooms[code].players) >= 1)

\* a room in which a game had been started has been deleted
C23_Witness ==
    \E code \in Codes :
        /\ code \notin DOMAIN rooms
        /\ log[code] # <<>>
        /\ ~crashed

\* the state in which the code schedules timer `t`
ScheduledIn(t) ==
    IF t.fn = "endRound" THEN PLAYING
    ELSE IF t.delay = NEXT_ROUND_DELAY THEN SCORING
    ELSE IF t.delay = NEW_GAME_DELAY THEN WAITING
    ELSE PREDICTING

\* timer i fires after its room was deleted or left the state it was scheduled in
Stale(i) ==
    \/ timers[i].code \notin DOMAIN rooms
    \/ rooms[timers[i].code].state # ScheduledIn(timers[i])

\* a step in which the callback of timer i runs
Fired(i) ==
    /\ CanFire(i)
    /\ connected' = connected
    /\ \/ timers' = Cancel(i)
       \/ /\ Len(timers') = Len(timers)
          /\ SubSeq(timers', 1, Len(timers) - 1) = Cancel(i)
          /\ timers' # timers

\* C24: a scheduled callback that fires after its room has been deleted, or
\* after the room has left the state the callback was scheduled in, changes
\* no room and raises no error.
C24_CallbacksGuarded ==
    [][\A i \in 1..Len(timers) :
          (Fired(i) /\ Stale(i)) => (rooms' = rooms /\ crashed' = crashed)]_vars

\* a step in which startRound deals a round in room `code`
StartRoundStep(code) ==
    /\ code \in DOMAIN rooms /\ code \in DOMAIN rooms'
    /\ Len(log'[code]) > Len(log[code])
    /\ Last(log'[code]).ev = "roundStart"

\* a step in which the new game scheduled by game over starts its round 1
NewGameStep(code) ==
    /\ StartRoundStep(code)
    /\ ~StartGameStep(code)
    /\ log[code] # <<>>
    /\ Last(log[code]).ev = "gameOver"

\* C25: between the start of a game and game over only endRound's scoring
\* changes the score of a player who stays in the room, and when the new
\* game scheduled by game over starts its round 1 every player's score is 0.
C25_ScoresPersistThenReset ==
    [][\A code \in Codes :
          (code \in DOMAIN rooms /\ code \in DOMAIN rooms') =>
              /\ (~EndRoundStep(code) /\ ~StartGameStep(code)) =>
                    \A id \in Range(rooms[code].players) \cap Range(rooms'[code].players) :
                        Get(rooms'[code].scores, id, NaN) = Get(rooms[code].scores, id, NaN)
              /\ NewGameStep(code) =>
                    \A id \in Range(rooms'[code].players) :
                        Get(rooms'[code].scores, id, NaN) = 0]_vars

\* C26: no room holds more than 4 players, and no room is in a round
\* (dealt, in PREDICTING or PLAYING) with fewer than 2 players.
C26_TwoToFourPlayers ==
    \A code \in DOMAIN rooms :
        /\ Len(rooms[code].players) <= 4
        /\ rooms[code].state \in {PREDICTING, PLAYING} => Len(rooms[code].players) >= 2

\* number of pending timers equal to t
Pending(ts, t) == Cardinality({ i \in 1..Len(ts) : ts[i] = t })

\* C27: the endRound that ends the game leaves the room in WAITING with
\* currentRound = 1, cardsThisRound = minRoundCards, ascending = true and
\* turnIndex = 0, emits gameOver once after the roundEnd, and schedules
\* exactly one round start, the one of the new game; currentRound is not
\* incremented and no next-round start of the old game is scheduled.
C27_GameOverReset ==
    [][\A code \in Codes :
          GameOverStep(code) =>
              LET room == rooms'[code]
                  newGame == Timer(code, "startRound", NEW_GAME_DELAY)
                  nextRound == Timer(code, "startRound", NEXT_ROUND_DELAY)
                  restart == Timer(code, "startRound", RESTART_DELAY)
              IN  /\ room.state = WAITING
                  /\ room.current_round = 1
                  /\ room.cards_this_round = room.min_round_cards
                  /\ room.ascending = TRUE
                  /\ room.turn_index = 0
                  /\ log'[code] = log[code] \o <<Event("roundEnd", rooms[code]),
                                                Event("gameOver", rooms[code])>>
                  /\ Pending(timers', newGame) = Pending(timers, newGame) + 1
                  /\ Pending(timers', nextRound) = Pending(timers, nextRound)
                  /\ Pending(timers', restart) = Pending(timers, restart)]_vars

\* a game of rounds 1, 2, 1 has ended: the room is back in round 1 in
\* WAITING after its third roundEnd, with the new game's start pending
C27_Witness ==
    \E code \in DOMAIN rooms :
        /\ log[code] # <<>>
        /\ Last(log[code]).ev = "gameOver"
        /\ Last(log[code]).round = 3
        /\ rooms[code].state = WAITING
        /\ rooms[code].current_round = 1
        /\ Pending(timers, Timer(code, "startRound", NEW_GAME_DELAY)) = 1

\* the hands of the players in player order, one after the other
RECURSIVE Dealt(_, _)
Dealt(hands, players) ==
    IF players = <<>> THEN <<>>
    ELSE Get(hands, Head(players), <<>>) \o Dealt(hands, Tail(players))

\* C28: immediately after startRound every current player holds exactly
\* cardsThisRound cards, the hands taken together in player order are a
\* stretch of one deck (no card more often than there are decks),
\* predictions is empty, every current player's tricksWon is 0,
\* currentTrick and currentPlayOrder are empty, the cursor is 0 and the
\* state is PREDICTING.
C28_Deal ==
    [][\A code \in Codes :
          StartRoundStep(code) =>
              LET room == rooms'[code]
                  dealt == Dealt(room.playerHands, room.players)
              IN  /\ DOMAIN room.playerHands = Range(room.players)
                  /\ \A id \in Range(room.players) :
                        Len(room.playerHands[id]) = room.cards_this_round
                  /\ Len(dealt) = Len(room.players) * room.cards_this_round
                  /\ \A card \in Range(dealt) :
                        Cardinality({ i \in 1..Len(dealt) : dealt[i] = card })
                            <= room.number_of_decks
                  /\ room.predictions = EmptyObj
                  /\ DOMAIN room.tricks_won = Range(room.players)
                  /\ \A id \in Range(room.players) : room.tricks_won[id] = 0
                  /\ room.current_trick = <<>>
                  /\ room.current_play_order = <<>>
                  /\ room.next_player_index = 0
                  /\ room.state = PREDICTING]_vars

\* a round of 2 cards has just been dealt from 2 decks to two players who
\* hold different hands
C28_Witness ==
    \E code \in DOMAIN rooms :
        LET room == rooms[code]
        IN  /\ room.state = PREDICTING
            /\ room.predictions = EmptyObj
            /\ room.number_of_decks = 2
            /\ room.cards_this_round = 2
            /\ Len(room.players) = 2
            /\ room.playerHands[room.players[1]] # room.playerHands[room.players[2]]

\* a step in which the last prediction starts the play phase of room `code`
PlayPhaseStep(code) ==
    /\ code \in DOMAIN rooms /\ code \in DOMAIN rooms'
    /\ rooms[code].state = PREDICTING
    /\ rooms'[code].state = PLAYING

\* the player list of `room` rotated to begin at seat turnIndex mod player count
LeadRotation(room) == Rotate(room.players, room.turn_index % Len(room.players))

\* C29: at each round start predictionOrder is the player list rotated to
\* begin at seat (turnIndex mod player count) and holds every current player
\* exactly once; the first trick's currentPlayOrder is the same rotation;
\* each endRound advances turnIndex by one seat modulo the player count
\* (the endRound that ends the game sets it to 0, claim C27); and turnIndex
\* is within [0, player count) in every reachable state.
C29_LeadRotation ==
    /\ [][\A code \in Codes :
            /\ StartRoundStep(code) =>
                  LET room == rooms'[code]
                  IN  /\ room.predictionOrder = LeadRotation(room)
                      /\ Range(room.predictionOrder) = Range(room.players)
                      /\ Len(room.predictionOrder) = Cardinality(Range(room.players))
            /\ PlayPhaseStep(code) =>
                  rooms'[code].current_play_order = LeadRotation(rooms'[code])
            /\ (EndRoundStep(code) /\ ~GameOverStep(code)) =>
                  rooms'[code].turn_index =
                      (rooms[code].turn_index + 1) % Len(rooms[code].players)]_vars
    /\ [](\A code \in DOMAIN rooms :
            /\ 0 <= rooms[code].turn_index
            /\ rooms[code].turn_index < Len(rooms[code].players))

\* a step in which `id` plays the card that completes a trick of room `code`
\* and the round goes on: the tricks won do not add up to cardsThisRound
TrickResolvedStep(code, id) ==
    /\ code \in DOMAIN rooms /\ code \in DOMAIN rooms'
    /\ connected' = connected
    /\ rooms[code].state = PLAYING /\ rooms'[code].state = PLAYING
    /\ id \in DOMAIN rooms[code].playerHands /\ id \in DOMAIN rooms'[code].playerHands
    /\ Len(rooms'[code].playerHands[id]) = Len(rooms[code].playerHands[id]) - 1
    /\ Len(rooms[code].current_trick) + 1 = Len(rooms[code].players)
    /\ SumValues(rooms'[code].tricks_won) # rooms'[code].cards_this_round

\* C30: after a trick that does not exhaust the round is resolved,
\* currentTrick is empty, the tricksWon of exactly one player, the winner of
\* the trick, has grown by exactly 1, currentPlayOrder is the player list
\* rotated to begin at the winner and the cursor is 0: the winner is the
\* only player whose card the next playCard accepts.
C30_WinnerLeadsNext ==
    [][\A code \in Codes, id \in Conns :
          TrickResolvedStep(code, id) =>
              LET old == rooms[code]
                  room == rooms'[code]
                  card == CHOOSE c \in Range(old.playerHands[id]) :
                              \E k \in 0..(Len(old.playerHands[id]) - 1) :
                                  /\ old.playerHands[id][k + 1] = c
                                  /\ room.playerHands[id] = RemoveAt(old.playerHands[id], k)
                  trick == Append(old.current_trick, [playerId |-> id, card |-> card])
                  winner == determineTrickWinner(trick, TrumpOf(old)).playerId
              IN  /\ room.current_trick = <<>>
                  /\ winner \in Range(room.players)
                  /\ Get(room.tricks_won, winner, 0) = Get(old.tricks_won, winner, 0) + 1
                  /\ \A p \in Range(room.players) \ {winner} :
                        Get(room.tricks_won, p, 0) = Get(old.tricks_won, p, 0)
                  /\ room.current_play_order =
                        Rotate(room.players, FindIndex(room.players, winner))
                  /\ room.next_player_index = 0
                  /\ \A p \in Range(room.players) \ {winner} : NotYourTurnToPlay(room, p)
                  /\ ~NotYourTurnToPlay(room, winner)]_vars

\* the first trick of a round of 2 cards was won by the second seat, who
\* now leads the second trick
C30_Witness ==
    \E code \in DOMAIN rooms :
        LET room == rooms[code]
        IN  /\ room.state = PLAYING
            /\ room.cards_this_round = 2
            /\ Len(room.players) = 2
            /\ room.turn_index = 0
            /\ room.current_trick = <<>>
            /\ Get(room.tricks_won, room.players[2], 0) = 1
            /\ Get(room.tricks_won, room.players[1], 0) = 0
            /\ room.current_play_order = <<room.players[2], room.players[1]>>
            /\ room.next_player_index = 0

\* a step in which a playCard request of `id` is accepted in room `code`
PlayCardStep(code, id) ==
    /\ code \in DOMAIN rooms /\ code \in DOMAIN rooms'
    /\ connected' = connected
    /\ log' = log
    /\ rooms[code].state = PLAYING
    /\ id \in DOMAIN rooms[code].playerHands /\ id \in DOMAIN rooms'[code].playerHands
    /\ Len(rooms'[code].playerHands[id]) = Len(rooms[code].playerHands[id]) - 1

\* C31: each accepted playCard takes exactly the chosen card out of the
\* requester's hand, puts that card at the end of currentTrick (which is
\* emptied in the same step when the card completes the trick) and leaves
\* every other hand unchanged; no connection occurs twice in
\* currentPlayOrder; and whenever currentTrick is empty in PLAYING every
\* player holds cardsThisRound minus the number of tricks won so far.
C31_HandAccounting ==
    /\ [][\A code \in Codes, id \in Conns :
            PlayCardStep(code, id) =>
                LET old == rooms[code]
                    room == rooms'[code]
                    hand == old.playerHands[id]
                IN  /\ \E k \in 0..(Len(hand) - 1) :
                          /\ room.playerHands[id] = RemoveAt(hand, k)
                          /\ \/ room.current_trick =
                                   Append(old.current_trick, [playerId |-> id, card |-> hand[k + 1]])
                             \/ /\ Len(old.current_trick) + 1 = Len(old.players)
                                /\ room.current_trick = <<>>
                    /\ DOMAIN room.playerHands = DOMAIN old.playerHands
                    /\ \A p \in DOMAIN old.playerHands \ {id} :
                          room.playerHands[p] = old.playerHands[p]]_vars
    /\ [](\A code \in DOMAIN rooms :
            LET room == rooms[code]
            IN  /\ \A i, j \in 1..Len(room.current_play_order) :
                      room.current_play_order[i] = room.current_play_order[j] => i = j
                /\ (room.state = PLAYING /\ room.current_trick = <<>>) =>
                      \A id \in Range(room.players) :
                          /\ id \in DOMAIN room.playerHands
                          /\ Len(room.playerHands[id]) =
                                room.cards_this_round - SumValues(room.tricks_won))

\* a step in which a makePrediction request of `id` is accepted in room `code`
MakePredictionStep(code, id) ==
    /\ code \in DOMAIN rooms /\ code \in DOMAIN rooms'
    /\ connected' = connected
    /\ log' = log
    /\ rooms[code].state = PREDICTING
    /\ id \in Range(rooms[code].predictionOrder)
    /\ id \notin Range(rooms'[code].predictionOrder)

\* C32: an accepted makePrediction records the value for the requester and
\* takes the requester off predictionOrder; the room goes from PREDICTING to
\* PLAYING in that step exactly when every current player then has a
\* recorded prediction, and at that moment predictionOrder is empty and,
\* unless a restart scheduled by a disconnect is pending, the keys of
\* predictions are exactly the current players.
C32_PredictionRecorded ==
    [][\A code \in Codes, id \in Conns :
          MakePredictionStep(code, id) =>
              LET old == rooms[code]
                  room == rooms'[code]
              IN  /\ \E prediction \in 0..old.cards_this_round :
                        room.predictions = Put(old.predictions, id, prediction)
                  /\ room.predictionOrder = Without(old.predictionOrder, id)
                  /\ room.state \in {PREDICTING, PLAYING}
                  /\ room.state = PLAYING <=>
                        \A p \in Range(room.players) : p \in DOMAIN room.predictions
                  /\ room.state = PLAYING =>
                        /\ room.predictionOrder = <<>>
                        /\ ~RestartPending(code) =>
                              DOMAIN room.predictions = Range(room.players)]_vars

\* the final trick of the round is resolved and the play phase of the next
\* round has not started: the display delay before endRound (every trick of
\* a round that has tricks is won), or SCORING
LateWindow(room) ==
    \/ room.state = SCORING
    \/ /\ room.state = PLAYING
       /\ room.current_trick = <<>>
       /\ room.cards_this_round > 0
       /\ SumValues(room.tricks_won) = room.cards_this_round

\* rounds dealt per room code before the exploration of SpecLate stops
MaxLateDeals == 3

\* games of three seats with disconnects, long enough for a round to be
\* dealt, dealt again and restarted
NextLate ==
    \/ Requests(GameConfigs)
    \/ Rounds(GameCards, MaxLateDeals)
    \/ \E id \in Conns : disconnect(id)

SpecLate == Init /\ [][NextLate]_vars

\* C33: once the final trick of a round is resolved, during the display
\* delay before endRound (state still PLAYING) and during SCORING, every
\* playCard request of every connection is rejected.
C33_LatePlaysBlocked ==
    \A code \in DOMAIN rooms :
        LateWindow(rooms[code]) =>
            \A id \in Conns, cardIndex \in CardIndexInputs :
                playCardError(code, id, cardIndex) # "none"

(***************************************************************************)
(* A server with two room codes: the rooms of the map side by side.        *)
(***************************************************************************)
RoomCodes == {"r1", "r2"}
\* createRoom payloads of SpecRooms
RoomsConfigs ==
    { [maxPlayers |-> 2, number_of_decks |-> 2, max_round_cards |-> 1, min_round_cards |-> 1] }
\* rounds dealt per room code before the exploration of SpecRooms stops
MaxRoomsDeals == 1
\* the connections that use the two rooms
RoomsConns == {"a", "b"}

InitRooms ==
    /\ rooms = EmptyObj
    /\ timers = <<>>
    /\ connected = Conns
    /\ crashed = FALSE
    /\ log = [code \in RoomCodes |-> <<>>]
    /\ probe = IdleProbe
    /\ joined = [code \in RoomCodes |-> {}]

NextRooms ==
    \/ \E code \in RoomCodes, id \in Creators, cfg \in RoomsConfigs : createRoom(code, id, cfg)
    \/ \E code \in RoomCodes, id \in RoomsConns : joinRoom(code, id)
    \/ \E code \in RoomCodes, id \in RoomsConns, prediction \in PredictionInputs :
          makePrediction(code, id, prediction)
    \/ \E code \in RoomCodes, id \in RoomsConns, cardIndex \in CardIndexInputs :
          playCard(code, id, cardIndex)
    \/ \E code \in RoomCodes, id \in RoomsConns :
          IF startGameError(code, id) # "none" THEN startGame(code, id, <<>>)
          ELSE /\ Budget(code, MaxRoomsDeals)
               /\ \E deck \in DecksFor(GameCards, code) : startGame(code, id, deck)
    \/ \E i \in 1..Len(timers) :
          /\ timers[i].fn = "startRound"
          /\ Budget(timers[i].code, MaxRoomsDeals)
          /\ \E deck \in DecksFor(GameCards, timers[i].code) : fireStartRound(i, deck)
    \/ \E i \in 1..Len(timers) : fireEndRound(i)
    \/ \E id \in RoomsConns : disconnect(id)

SpecRooms == InitRooms /\ [][NextRooms]_vars

\* room `code` (its entry in the room map and its socket.io room) is the
\* same before and after the step
SameRoom(code) ==
    /\ code \in DOMAIN rooms <=> code \in DOMAIN rooms'
    /\ code \in DOMAIN rooms => rooms'[code] = rooms[code]
    /\ joined'[code] = joined[code]

C35_PredictOnce ==
    /\ [](\A code \in DOMAIN rooms :
            rooms[code].state = PREDICTING =>
                \A id \in DOMAIN rooms[code].predictions, prediction \in PredictionInputs :
                    makePredictionError(code, id, prediction) # "none")
    /\ [][\A code \in Codes :
            (code \in DOMAIN rooms /\ code \in DOMAIN rooms' /\ log' = log) =>
                \A id \in DOMAIN rooms[code].predictions \cap DOMAIN rooms'[code].predictions :
                    rooms'[code].predictions[id] = rooms[code].predictions[id]]_vars

\* in a room of three players one prediction is recorded and the next
\* player is still to predict
C35_Witness ==
    \E code \in DOMAIN rooms :
        /\ rooms[code].state = PREDICTING
        /\ Len(rooms[code].players) = 3
        /\ Cardinality(DOMAIN rooms[code].predictions) = 1
        /\ Len(rooms[code].predictionOrder) = 2
        /\ \E id \in Range(rooms[code].predictionOrder), prediction \in PredictionInputs :
              makePredictionError(code, id, prediction) = "none"

\* a round start is due in `code`: the round was scored, the game is over,
\* or a disconnect has reset the round and nothing was dealt since
DealDue(code) ==
    LET room == rooms[code]
    IN  \/ room.state = SCORING
        \/ room.state = WAITING /\ log[code] # <<>> /\ Last(log[code]).ev = "gameOver"
        \/ /\ room.state = PREDICTING
           /\ RestartPending(code)
           /\ room.predictions = EmptyObj
           /\ room.tricks_won = EmptyObj

\* pending startRound callbacks of room `code`
PendingStarts(code) ==
    Cardinality({ i \in 1..Len(timers) : timers[i].code = code /\ timers[i].fn = "startRound" })

\* C36: every round is dealt once and a round restarted by a disconnect is
\* dealt once: a startRound callback deals only when a round start is due
\* (after scoring, after game over, or for the restart the disconnect asked
\* for), never into a round in progress, and a room never has two round
\* starts pending.
C36_RestartIsSingle ==
    /\ [][\A code \in Codes :
            (StartRoundStep(code) /\ ~StartGameStep(code)) => DealDue(code)]_vars
    /\ [](\A code \in DOMAIN rooms : PendingStarts(code) <= 1)

(***************************************************************************)
(* Games played to their end by players who stay connected and act when    *)
(* it is their turn: the requests and the timers are weakly fair, and the  *)
(* host asks for a start only while the room is in WAITING.                *)
(***************************************************************************)
\* createRoom payloads of SpecLive
LiveConfigs ==
    { [maxPlayers |-> 2, number_of_decks |-> 6, max_round_cards |-> 2, min_round_cards |-> 1],
      [maxPlayers |-> 2, number_of_decks |-> 6, max_round_cards |-> 1, min_round_cards |-> 1] }
\* rounds dealt per room code before the exploration of SpecLive stops
MaxLiveDeals == 3

NextLive ==
    \/ Requests(LiveConfigs)
    \/ \E code \in Codes, id \in Conns :
          IF startGameError(code, id) # "none" THEN startGame(code, id, <<>>)
          ELSE /\ rooms[code].state = WAITING
               /\ Budget(code, MaxLiveDeals)
               /\ \E deck \in DecksFor(GameCards, code) : startGame(code, id, deck)
    \/ \E i \in 1..Len(timers) :
          /\ timers[i].fn = "startRound"
          /\ Budget(timers[i].code, MaxLiveDeals)
          /\ \E deck \in DecksFor(GameCards, timers[i].code) : fireStartRound(i, deck)
    \/ \E i \in 1..Len(timers) : fireEndRound(i)

SpecLive == Init /\ [][NextLive]_vars /\ WF_vars(NextLive)

\* the first game of room `code` is under way
FirstGameRunning(code) ==
    /\ code \in DOMAIN rooms
    /\ Deals(code) >= 1
    /\ \A i \in 1..Len(log[code]) : log[code][i].ev # "gameOver"

\* a game of room `code` has reached game over
GameOverReached(code) ==
    \E i \in 1..Len(log[code]) : log[code][i].ev = "gameOver"

\* C37: when nobody disconnects and the players and the timers keep acting,
\* every game that was started reaches game over: the room does not stay in
\* PREDICTING or PLAYING for ever.
C37_Progress ==
    \A code \in Codes : FirstGameRunning(code) ~> GameOverReached(code)

\* C38: the host of every room is one of its current players, so that a
\* room in WAITING with at least 2 players has a member whose startGame is
\* accepted.
C38_HostIsPlayer ==
    \A code \in DOMAIN rooms :
        /\ rooms[code].host \in Range(rooms[code].players)
        /\ (rooms[code].state = WAITING /\ Len(rooms[code].players) >= 2) =>
              \E id \in Range(rooms[code].players) : startGameError(code, id) = "none"

\* C39: whenever a room is in PREDICTING, PLAYING or SCORING, scores holds
\* an integer for every current player and has no entry for a connection
\* that is not a current player.
C39_ScoresMatchPlayers ==
    \A code \in DOMAIN rooms :
        rooms[code].state \in {PREDICTING, PLAYING, SCORING} =>
            /\ DOMAIN rooms[code].scores = Range(rooms[code].players)
            /\ \A id \in Range(rooms[code].players) : rooms[code].scores[id] # NaN
=============================================================================
